---------------------------- MODULE Spec2Model ----------------------------
(***************************************************************************)
(* A model of the 'fxLayout' directive (src/lib/flexbox/api/layout.ts):    *)
(* the input normaliser (_validateValue, _validateWrapValue), the style    *)
(* builder (_buildCSS) and the lifecycle of LayoutDirective (ngOnChanges,  *)
(* ngOnInit, media-query activation, destruction, the layout$ channel).    *)
(*                                                                         *)
(* JavaScript values are records [t, s]: t is the type tag and s the       *)
(* characters of a string (or the digits of a number).  Strings are        *)
(* sequences of one-character strings, so that toLowerCase and split are   *)
(* computed character by character, as the runtime computes them.          *)
(***************************************************************************)
EXTENDS Naturals, Sequences, FiniteSets, TLC

VARIABLES
    \* ---- the directive (lifecycle specification) ----
    inputMap,      \* BaseFxDirective._inputMap: input key -> cached value
    mqActivation,  \* TRUE once ngOnInit has built this._mqActivation
    activatedKey,  \* the breakpoint input the activation holds as active
    viewport,      \* the breakpoint the media monitor last reported
    listening,     \* the media-query subscription is live
    destroyed,     \* ngOnDestroy has run
    hostStyle,     \* the inline styles of the host element
    announcer,     \* the current value of the BehaviorSubject
    emitted,       \* every value passed to _announcer.next, in order
    subscribed,    \* the observer has subscribed to layout$
    received,      \* what the observer was delivered, in order
    subAt,         \* how many values had been emitted when it subscribed
    last,          \* the last handler that ran
    upd,           \* what the last handler's _updateWithDirection call did
    \* ---- the normaliser called on its own ----
    nPc, nRaw, nParts, nRet, nArgs, nCss

vars == <<inputMap, mqActivation, activatedKey, viewport, listening, destroyed,
          hostStyle, announcer, emitted, subscribed, received, subAt,
          last, upd, nPc, nRaw, nParts, nRet, nArgs, nCss>>

dirVars == <<inputMap, mqActivation, activatedKey, viewport, listening,
             destroyed, hostStyle, announcer, emitted, subscribed, received,
             subAt, last, upd>>

normVars == <<nPc, nRaw, nParts, nRet, nArgs, nCss>>

---------------------------------------------------------------------------
(* Bounds *)

\* the longest run of whitespace characters between two tokens
MaxWs == 2

\* the number of values the announcer is given before the model stops
MaxEmit == 3

---------------------------------------------------------------------------
(* Character strings *)

s_row == <<"r", "o", "w">>
s_column == <<"c", "o", "l", "u", "m", "n">>
s_row_reverse == <<"r", "o", "w", "-", "r", "e", "v", "e", "r", "s", "e">>
s_column_reverse == <<"c", "o", "l", "u", "m", "n", "-", "r", "e", "v", "e", "r", "s", "e">>
s_wrap == <<"w", "r", "a", "p">>
s_nowrap == <<"n", "o", "w", "r", "a", "p">>
s_wrap_reverse == <<"w", "r", "a", "p", "-", "r", "e", "v", "e", "r", "s", "e">>
s_reverse == <<"r", "e", "v", "e", "r", "s", "e">>
s_reverse_wrap == <<"r", "e", "v", "e", "r", "s", "e", "-", "w", "r", "a", "p">>
s_no == <<"n", "o">>
s_none == <<"n", "o", "n", "e">>
s_flex == <<"f", "l", "e", "x">>
s_border_box == <<"b", "o", "r", "d", "e", "r", "-", "b", "o", "x">>
s_Column == <<"C", "o", "l", "u", "m", "n">>
s_ROW_REVERSE == <<"R", "O", "W", "-", "R", "E", "V", "E", "R", "S", "E">>
s_diagonal == <<"d", "i", "a", "g", "o", "n", "a", "l">>
s_Reverse == <<"R", "e", "v", "e", "r", "s", "e">>
s_NoWrap == <<"N", "o", "W", "r", "a", "p">>
s_None == <<"N", "o", "n", "e">>
s_bogus == <<"b", "o", "g", "u", "s">>
s_extra == <<"e", "x", "t", "r", "a">>
s_empty == << >>

UpperChars == <<"A", "B", "C", "D", "E", "F", "G", "H", "I", "J", "K", "L", "M", "N", "O", "P", "Q", "R", "S", "T", "U", "V", "W", "X", "Y", "Z">>
LowerChars == <<"a", "b", "c", "d", "e", "f", "g", "h", "i", "j", "k", "l", "m", "n", "o", "p", "q", "r", "s", "t", "u", "v", "w", "x", "y", "z">>

SPACE == " "
TAB == "\t"

---------------------------------------------------------------------------
(* JavaScript values *)

Undefined == [t |-> "undefined", s |-> s_empty]
Null == [t |-> "null", s |-> s_empty]
Str(cs) == [t |-> "string", s |-> cs]
Num(cs) == [t |-> "number", s |-> cs]

\* ToBoolean: undefined, null, '' and 0 are falsy
Truthy(v) ==
    CASE v.t = "string" -> v.s # s_empty
      [] v.t = "number" -> v.s # <<"0">>
      [] OTHER -> FALSE

\* String.prototype.toLowerCase, one character
lowerChar(c) ==
    IF \E i \in 1..Len(UpperChars) : UpperChars[i] = c
    THEN LowerChars[CHOOSE i \in 1..Len(UpperChars) : UpperChars[i] = c]
    ELSE c

\* the characters the model's strings are made of
Chars == {UpperChars[i] : i \in 1..Len(UpperChars)} \cup
         {LowerChars[i] : i \in 1..Len(LowerChars)} \cup {" ", "\t", "-", "5", "0"}

LowerTable == [c \in Chars |-> lowerChar(c)]

\* String.prototype.toLowerCase
toLowerCase(cs) == [i \in 1..Len(cs) |-> LowerTable[cs[i]]]

\* String.prototype.split(sep) for a one-character separator: the pieces
\* between consecutive separators, empty pieces kept; '' gives ['']
RECURSIVE split(_, _)
split(cs, sep) ==
    IF \A i \in 1..Len(cs) : cs[i] # sep
    THEN <<cs>>
    ELSE LET i == CHOOSE j \in 1..Len(cs) :
                      cs[j] = sep /\ \A k \in 1..(j - 1) : cs[k] # sep
         IN  <<SubSeq(cs, 1, i - 1)>> \o split(SubSeq(cs, i + 1, Len(cs)), sep)

\* arr[i] of a JavaScript array of strings (0-based), undefined past the end
At(arr, i) == IF i + 1 <= Len(arr) THEN Str(arr[i + 1]) ELSE Undefined

---------------------------------------------------------------------------
(* layout.ts: constants and pure methods *)

LAYOUT_VALUES == <<Str(s_row), Str(s_column), Str(s_row_reverse), Str(s_column_reverse)>>

\* _validateWrapValue with the case 'reverse-wrap' of line 169 missing
validateWrapValue_noReverseWrap(value) ==
    IF Truthy(value)
    THEN LET v == toLowerCase(value.s)
         IN  CASE v \in {s_reverse, s_wrap_reverse} -> Str(s_wrap_reverse)
               [] v \in {s_no, s_none, s_nowrap} -> Str(s_nowrap)
               [] OTHER -> Str(s_wrap)
    ELSE value

\* _validateWrapValue(value): the flex-wrap style of a wrap token
_validateWrapValue(value) ==
    IF Truthy(value)
    THEN LET v == toLowerCase(value.s)
         IN  CASE v \in {s_reverse, s_wrap_reverse, s_reverse_wrap} -> Str(s_wrap_reverse)
               [] v \in {s_no, s_none, s_nowrap} -> Str(s_nowrap)
               [] OTHER -> Str(s_wrap)
    ELSE value

\* the result of a call that threw
Threw == [threw |-> TRUE, direction |-> Undefined, wrap |-> Undefined]

\* _validateValue without the lower-casing of line 152
validateValue_caseSensitive(value) ==
    IF Truthy(value) /\ value.t # "string"
    THEN Threw
    ELSE LET v == IF Truthy(value) THEN value.s ELSE s_empty
             arr == split(v, SPACE)
             direction == At(arr, 0)
             wrap == At(arr, 1)
         IN  [threw |-> FALSE,
              direction |-> IF \E i \in 1..Len(LAYOUT_VALUES) : LAYOUT_VALUES[i] = direction
                            THEN direction ELSE LAYOUT_VALUES[1],
              wrap |-> _validateWrapValue(wrap)]

\* _validateValue(value): [direction, wrap] of a raw input; a truthy value
\* that is no string has no toLowerCase method, and the call throws
_validateValue(value) ==
    IF Truthy(value) /\ value.t # "string"
    THEN Threw
    ELSE LET v == IF Truthy(value) THEN toLowerCase(value.s) ELSE s_empty
             arr == split(v, SPACE)
             direction == At(arr, 0)
             wrap == At(arr, 1)
         IN  [threw |-> FALSE,
              direction |-> IF \E i \in 1..Len(LAYOUT_VALUES) : LAYOUT_VALUES[i] = direction
                            THEN direction ELSE LAYOUT_VALUES[1],
              wrap |-> _validateWrapValue(wrap)]

\* _buildCSS that copies wrap into the style without testing it
buildCSS_noTruthTest(direction, wrap) ==
    LET w == IF wrap = Undefined THEN Null ELSE wrap
    IN  ("display" :> Str(s_flex)) @@ ("box-sizing" :> Str(s_border_box)) @@
        ("flex-direction" :> direction) @@ ("flex-wrap" :> w)

\* _buildCSS(direction, wrap = null): the style object; an undefined wrap
\* takes the default null
_buildCSS(direction, wrap) ==
    LET w == IF wrap = Undefined THEN Null ELSE wrap
    IN  ("display" :> Str(s_flex)) @@ ("box-sizing" :> Str(s_border_box)) @@
        ("flex-direction" :> direction) @@
        ("flex-wrap" :> IF Truthy(w) THEN w ELSE Null)

---------------------------------------------------------------------------
(* The normaliser and the style builder called on their own *)

WsChars == {SPACE, TAB}

\* the runs of at most n whitespace characters
WsRuns(n) == UNION {[1..k -> WsChars] : k \in 0..n}

DirTokens == {s_empty, s_row, s_Column, s_ROW_REVERSE, s_column_reverse, s_diagonal}

WrapTokens == {s_empty, s_wrap, s_Reverse, s_wrap_reverse, s_reverse_wrap,
               s_no, s_None, s_NoWrap, s_bogus}

Leads == {s_empty, <<SPACE>>}

Trails == {s_empty, <<SPACE>>, <<SPACE>> \o s_extra}

\* the raw strings: [lead] direction [separator wrap] [trail]
RawParts == [lead : Leads, dir : DirTokens, sep : WsRuns(MaxWs),
             wrap : WrapTokens, trail : Trails]

Concat(p) == p.lead \o p.dir \o p.sep \o p.wrap \o p.trail

NoParts == [lead |-> s_empty, dir |-> s_empty, sep |-> s_empty,
            wrap |-> s_empty, trail |-> s_empty]

NoRet == [threw |-> FALSE, direction |-> Undefined, wrap |-> Undefined]

NoCss == [k \in {} |-> Undefined]

\* the wrap arguments _buildCSS is called with directly
WrapArgs == {Undefined, Null, Str(s_empty), Str(s_wrap), Str(s_nowrap), Str(s_wrap_reverse)}

NormIdle ==
    /\ nPc = "idle" /\ nRaw = Undefined /\ nParts = NoParts
    /\ nRet = NoRet /\ nArgs = <<Undefined, Undefined>> /\ nCss = NoCss

\* this._validateValue(value), as line 118 calls it
CallValidateValue ==
    /\ nPc = "start"
    /\ nRet' = _validateValue(nRaw)
    /\ nPc' = "validated"
    /\ UNCHANGED <<nRaw, nParts, nArgs, nCss>>

\* this._buildCSS(direction, wrap), as line 121 calls it
CallBuildCSS ==
    /\ nPc = "validated"
    /\ nArgs' = <<nRet.direction, nRet.wrap>>
    /\ nCss' = _buildCSS(nRet.direction, nRet.wrap)
    /\ nPc' = "built"
    /\ UNCHANGED <<nRaw, nParts, nRet>>

\* _buildCSS called with any wrap argument, an omitted or null one included
CallBuildCSSWith(w) ==
    /\ nPc = "validated"
    /\ nArgs' = <<nRet.direction, w>>
    /\ nCss' = _buildCSS(nRet.direction, w)
    /\ nPc' = "built"
    /\ UNCHANGED <<nRaw, nParts, nRet>>

---------------------------------------------------------------------------
(* The directive: inputs, collaborators and handlers *)

\* the base input and one of the nine breakpoint-qualified inputs
BaseKey == "layout"
BreakpointKeys == {"layoutXs"}
Keys == {BaseKey} \cup BreakpointKeys
NoKey == "none"

\* the values a template can bind to an input
Values == {Undefined, Str(s_empty), Str(s_Column \o <<SPACE>> \o s_Reverse),
           Str(s_diagonal \o <<SPACE>> \o s_bogus), Num(<<"5">>)}

\* the values a MediaChange event can carry
EventValues == {Undefined, Str(s_column_reverse \o <<SPACE>> \o s_no), Num(<<"5">>)}

\* BaseFxDirective._cacheInput(key, source)
_cacheInput(im, key, source) == [im EXCEPT ![key] = source]

\* BaseFxDirective._queryInput(key)
_queryInput(im, key) == im[key]

\* ResponsiveActivation.activatedInput: the active breakpoint's input when
\* one is active and set, else the base input, else the default 'row'
activatedInput(im, ak) ==
    IF ak # NoKey /\ im[ak] # Undefined THEN im[ak]
    ELSE IF im[BaseKey] # Undefined THEN im[BaseKey]
    ELSE Str(s_row)

\* BaseFxDirective._applyStyleToElement: sets each property of the style on
\* the element; a null value removes the property
_applyStyleToElement(hs, css) ==
    LET removed == {k \in DOMAIN css : css[k] = Null}
        keys == (DOMAIN hs \cup DOMAIN css) \ removed
    IN  [k \in keys |-> IF k \in DOMAIN css THEN css[k] ELSE hs[k]]

\* the flex-direction now on the host element, undefined when none is
HostDirection(hs) ==
    IF "flex-direction" \in DOMAIN hs THEN hs["flex-direction"] ELSE Undefined

NoUpd == [called |-> FALSE, raw |-> Undefined, ret |-> NoRet, pushed |-> 0,
          applied |-> FALSE]

\* BehaviorSubject.next(value): store the value, deliver it to the observer;
\* hs is the host style at the moment of the delivery
_announcer_next(value, hs) ==
    /\ announcer' = value
    /\ emitted' = Append(emitted, value)
    /\ received' = IF subscribed
                   THEN Append(received, [value |-> value, host |-> HostDirection(hs)])
                   ELSE received

\* _updateWithDirection that keeps the value it was called with when the
\* activation exists (lines 115-117 left out)
updateWithDirection_noOverride(value, im, mq, ak) ==
    LET raw == IF Truthy(value) THEN value
               ELSE IF Truthy(_queryInput(im, BaseKey)) THEN _queryInput(im, BaseKey)
               ELSE Str(s_row)
        r == _validateValue(raw)
        hs == _applyStyleToElement(hostStyle, _buildCSS(r.direction, r.wrap))
    IN  IF r.threw
        THEN /\ upd' = [called |-> TRUE, raw |-> raw, ret |-> r, pushed |-> 0,
                        applied |-> FALSE]
             /\ UNCHANGED <<hostStyle, announcer, emitted, received>>
        ELSE /\ hostStyle' = hs
             /\ _announcer_next(r.direction, hs)
             /\ upd' = [called |-> TRUE, raw |-> raw, ret |-> r, pushed |-> 1,
                        applied |-> TRUE]

\* _updateWithDirection(value): im, mq and ak are the input map, whether
\* this._mqActivation exists and its active key, as the call finds them
_updateWithDirection(value, im, mq, ak) ==
    LET v == IF Truthy(value) THEN value
             ELSE IF Truthy(_queryInput(im, BaseKey)) THEN _queryInput(im, BaseKey)
             ELSE Str(s_row)
        raw == IF mq THEN activatedInput(im, ak) ELSE v
        r == _validateValue(raw)
        hs == _applyStyleToElement(hostStyle, _buildCSS(r.direction, r.wrap))
    IN  IF r.threw
        THEN /\ upd' = [called |-> TRUE, raw |-> raw, ret |-> r, pushed |-> 0,
                        applied |-> FALSE]
             /\ UNCHANGED <<hostStyle, announcer, emitted, received>>
        ELSE /\ hostStyle' = hs
             /\ _announcer_next(r.direction, hs)
             /\ upd' = [called |-> TRUE, raw |-> raw, ret |-> r, pushed |-> 1,
                        applied |-> TRUE]

NoLast == [op |-> "constructor", changed |-> {}, mqBefore |-> FALSE]

\* the input setters (lines 60-69) followed by ngOnChanges(changes):
\* ch maps each input whose binding changed to its new value
ngOnChanges(ch) ==
    /\ ~destroyed
    /\ Len(emitted) < MaxEmit
    /\ \A k \in DOMAIN ch : ch[k] # inputMap[k]
    /\ LET im == [k \in Keys |-> IF k \in DOMAIN ch
                                 THEN _cacheInput(inputMap, k, ch[k])[k]
                                 ELSE inputMap[k]]
       IN  /\ inputMap' = im
           /\ IF BaseKey \in DOMAIN ch \/ mqActivation
              THEN _updateWithDirection(Undefined, im, mqActivation, activatedKey)
              ELSE /\ upd' = NoUpd
                   /\ UNCHANGED <<hostStyle, announcer, emitted, received>>
    /\ last' = [op |-> "ngOnChanges", changed |-> DOMAIN ch, mqBefore |-> mqActivation]
    /\ UNCHANGED <<mqActivation, activatedKey, viewport, listening, destroyed,
                   subscribed, subAt>>

\* ngOnInit(): _listenForMediaQueryChanges builds the activation, which
\* starts from the breakpoint the viewport is in; then one recomputation
ngOnInit ==
    /\ ~destroyed
    /\ ~mqActivation
    /\ Len(emitted) < MaxEmit
    /\ mqActivation' = TRUE
    /\ listening' = TRUE
    /\ activatedKey' = viewport
    /\ _updateWithDirection(Undefined, inputMap, TRUE, viewport)
    /\ last' = [op |-> "ngOnInit", changed |-> {}, mqBefore |-> mqActivation]
    /\ UNCHANGED <<inputMap, viewport, destroyed, subscribed, subAt>>

\* the listener of lines 100-102, called with the event's value
onMediaQueryChange(value, ak) ==
    _updateWithDirection(value, inputMap, mqActivation, ak)

\* the media monitor reports that breakpoint k became the active one; the
\* activation, while subscribed, takes it and calls the listener
MediaQueryEvent(k, value) ==
    /\ k # viewport
    /\ viewport' = k
    /\ IF listening
       THEN /\ Len(emitted) < MaxEmit
            /\ activatedKey' = k
            /\ onMediaQueryChange(value, k)
       ELSE /\ upd' = NoUpd
            /\ UNCHANGED <<activatedKey, hostStyle, announcer, emitted, received>>
    /\ last' = [op |-> "mediaChange", changed |-> {}, mqBefore |-> mqActivation]
    /\ UNCHANGED <<inputMap, mqActivation, listening, destroyed, subscribed, subAt>>

\* ngOnDestroy that leaves the media-query subscription in place
ngOnDestroy_keepsListening ==
    /\ mqActivation
    /\ ~destroyed
    /\ destroyed' = TRUE
    /\ last' = [op |-> "ngOnDestroy", changed |-> {}, mqBefore |-> mqActivation]
    /\ UNCHANGED <<inputMap, mqActivation, activatedKey, viewport, listening,
                   hostStyle, announcer, emitted, subscribed, received, subAt, upd>>

\* BaseFxDirective.ngOnDestroy(): releases the media-query subscription
ngOnDestroy ==
    /\ mqActivation
    /\ ~destroyed
    /\ destroyed' = TRUE
    /\ listening' = FALSE
    /\ last' = [op |-> "ngOnDestroy", changed |-> {}, mqBefore |-> mqActivation]
    /\ UNCHANGED <<inputMap, mqActivation, activatedKey, viewport, hostStyle,
                   announcer, emitted, subscribed, received, subAt, upd>>

\* a subscription to a channel that does not replay its current value
Subscribe_noReplay ==
    /\ ~subscribed
    /\ subscribed' = TRUE
    /\ subAt' = Len(emitted)
    /\ received' = << >>
    /\ last' = [op |-> "subscribe", changed |-> {}, mqBefore |-> mqActivation]
    /\ UNCHANGED <<inputMap, mqActivation, activatedKey, viewport, listening,
                   destroyed, hostStyle, announcer, emitted, upd>>

\* layout$.subscribe(observer): the BehaviorSubject of line 76 delivers its
\* current value at once
Subscribe ==
    /\ ~subscribed
    /\ subscribed' = TRUE
    /\ subAt' = Len(emitted)
    /\ received' = <<[value |-> announcer, host |-> HostDirection(hostStyle)]>>
    /\ last' = [op |-> "subscribe", changed |-> {}, mqBefore |-> mqActivation]
    /\ UNCHANGED <<inputMap, mqActivation, activatedKey, viewport, listening,
                   destroyed, hostStyle, announcer, emitted, upd>>

\* the constructor (lines 74-78): the announcer starts at "row"
Constructed ==
    /\ inputMap = [k \in Keys |-> Undefined]
    /\ mqActivation = FALSE
    /\ activatedKey = NoKey
    /\ listening = FALSE
    /\ destroyed = FALSE
    /\ hostStyle = NoCss
    /\ announcer = Str(s_row)
    /\ emitted = << >>
    /\ subscribed = FALSE
    /\ received = << >>
    /\ subAt = 0
    /\ last = NoLast
    /\ upd = NoUpd

---------------------------------------------------------------------------
(* Specifications *)

Init ==
    /\ Constructed
    /\ viewport \in {NoKey} \cup BreakpointKeys
    /\ NormIdle

Next ==
    \/ \E K \in (SUBSET Keys) \ {{}} : \E ch \in [K -> Values] :
           ngOnChanges(ch) /\ UNCHANGED normVars
    \/ ngOnInit /\ UNCHANGED normVars
    \/ \E k \in {NoKey} \cup BreakpointKeys : \E v \in EventValues :
           MediaQueryEvent(k, v) /\ UNCHANGED normVars
    \/ ngOnDestroy /\ UNCHANGED normVars
    \/ Subscribe /\ UNCHANGED normVars

Spec == Init /\ [][Next]_vars

NormInit ==
    /\ Constructed
    /\ viewport = NoKey
    /\ nPc = "start"
    /\ \/ \E p \in RawParts : nParts = p /\ nRaw = Str(Concat(p))
       \/ nParts = NoParts /\ nRaw \in {Undefined, Null}
    /\ nRet = NoRet
    /\ nArgs = <<Undefined, Undefined>>
    /\ nCss = NoCss

NormNext ==
    \/ CallValidateValue /\ UNCHANGED dirVars
    \/ CallBuildCSS /\ UNCHANGED dirVars
    \/ \E w \in WrapArgs : CallBuildCSSWith(w) /\ UNCHANGED dirVars

NormSpec == NormInit /\ [][NormNext]_vars

---------------------------------------------------------------------------
(* Properties *)

LayoutSet == {LAYOUT_VALUES[i] : i \in 1..Len(LAYOUT_VALUES)}

\* an unset wrap: undefined, null or the empty string
Unset == {Undefined, Null, Str(s_empty)}

Validated == nPc \in {"validated", "built"}

\* the first and second piece of the raw string between single spaces
FirstToken == At(split(nRaw.s, SPACE), 0)
SecondToken == At(split(nRaw.s, SPACE), 1)

\* the direction a direction token stands for
DirectionOf(tok) ==
    IF toLowerCase(tok) \in {s_row, s_column, s_row_reverse, s_column_reverse}
    THEN Str(toLowerCase(tok))
    ELSE Str(s_row)

\* the wrap mode a non-empty wrap token stands for
WrapOf(tok) ==
    IF toLowerCase(tok) \in {s_reverse, s_wrap_reverse, s_reverse_wrap}
    THEN Str(s_wrap_reverse)
    ELSE IF toLowerCase(tok) \in {s_no, s_none, s_nowrap}
    THEN Str(s_nowrap)
    ELSE Str(s_wrap)

\* the raw value the precedence of the specification selects
BaseOrRow == IF inputMap[BaseKey] # Undefined THEN inputMap[BaseKey] ELSE Str(s_row)

OverrideActive ==
    mqActivation /\ activatedKey # NoKey /\ inputMap[activatedKey] # Undefined

PrecedenceRaw == IF OverrideActive THEN inputMap[activatedKey] ELSE BaseOrRow

\* C1: every recomputation normalises the value chosen by precedence: the
\* active breakpoint override, else the base input, else "row"; whatever
\* the change set lists and whatever value the activation event carries.
\* (A falsy base input is replaced by "row", which normalises the same.)
C1_Precedence ==
    upd.called =>
        /\ upd.ret = _validateValue(PrecedenceRaw)
        /\ Truthy(PrecedenceRaw) => upd.raw = PrecedenceRaw

\* an override is active while only the base input changed, and the host
\* shows the override's direction, not the base input's
C1_Witness ==
    /\ last.op = "ngOnChanges" /\ last.changed = {BaseKey}
    /\ upd.called /\ OverrideActive
    /\ inputMap["layoutXs"] = Str(s_Column \o <<SPACE>> \o s_Reverse)
    /\ inputMap[BaseKey] = Str(s_diagonal \o <<SPACE>> \o s_bogus)
    /\ HostDirection(hostStyle) = Str(s_column)

\* C2: the direction _validateValue returns is the lower-cased first token
\* when that is one of the four directions, and "row" for every other
\* input; it is always a member of LAYOUT_VALUES.
C2_Direction ==
    Validated =>
        /\ nRet.direction = DirectionOf(FirstToken.s)
        /\ nRet.direction \in LayoutSet

\* an upper-case direction was recognised
C2_Witness ==
    /\ Validated
    /\ nParts.lead = s_empty /\ nParts.dir = s_ROW_REVERSE
    /\ nRet.direction = Str(s_row_reverse)

\* C3: the wrap mapping is total over the second token: the reverse
\* spellings give "wrap-reverse", the no spellings "nowrap", any other
\* non-empty token "wrap", an absent token an unset wrap; the result is
\* always wrap, nowrap, wrap-reverse or unset.
C3_WrapTotal ==
    Validated =>
        /\ Truthy(SecondToken) => nRet.wrap = WrapOf(SecondToken.s)
        /\ SecondToken = Undefined => nRet.wrap = Undefined
        /\ nRet.wrap \in {Str(s_wrap), Str(s_nowrap), Str(s_wrap_reverse)} \cup Unset

\* "Column reverse-wrap" gave wrap-reverse
C3_Witness ==
    /\ Validated
    /\ nParts.lead = s_empty /\ nParts.dir = s_Column
    /\ nParts.sep = <<SPACE>> /\ nParts.wrap = s_reverse_wrap
    /\ nRet.direction = Str(s_column)
    /\ nRet.wrap = Str(s_wrap_reverse)

\* C4: for a direction token and a wrap token separated by one or more
\* whitespace characters (spaces or tabs), with or without leading and
\* trailing whitespace or further tokens, the direction comes from the
\* direction token and the wrap mode from the wrap token.
C4_WhitespaceSplit ==
    (Validated /\ nParts.dir # s_empty /\ nParts.sep # s_empty
               /\ nParts.wrap # s_empty) =>
        /\ nRet.direction = DirectionOf(nParts.dir)
        /\ nRet.wrap = WrapOf(nParts.wrap)

Built == nPc = "built"

CssKeys == {"display", "box-sizing", "flex-direction", "flex-wrap"}

\* C5 (as stated): the style has display, box-sizing and flex-direction,
\* has no flex-wrap property at all when wrap is unset, and flex-wrap:
\* <wrap> otherwise.
C5_OmitsFlexWrap ==
    Built =>
        /\ nCss["display"] = Str(s_flex)
        /\ nCss["box-sizing"] = Str(s_border_box)
        /\ nCss["flex-direction"] = nArgs[1]
        /\ IF nArgs[2] \in Unset
           THEN "flex-wrap" \notin DOMAIN nCss
           ELSE nCss["flex-wrap"] = nArgs[2]

\* C5 (amended): the style always has the four properties; flex-wrap is
\* null when wrap is unset (undefined, null or the empty string) and
\* <wrap> otherwise.
C5_NullsFlexWrap ==
    Built =>
        /\ DOMAIN nCss = CssKeys
        /\ nCss["display"] = Str(s_flex)
        /\ nCss["box-sizing"] = Str(s_border_box)
        /\ nCss["flex-direction"] = nArgs[1]
        /\ nCss["flex-wrap"] = IF nArgs[2] \in Unset THEN Null ELSE nArgs[2]

\* a style was built from an empty wrap string
C5_Witness ==
    /\ Built
    /\ nArgs[2] = Str(s_empty)
    /\ nCss["flex-wrap"] = Null

\* what of C6 does not depend on the recomputation completing: the channel
\* holds one of the four directions, equal to the host's flex-direction
\* once a style was applied, and every delivery made by next() finds the
\* host already showing the delivered direction
C6_ChannelMatchesHost ==
    /\ announcer \in LayoutSet
    /\ HostDirection(hostStyle) # Undefined => announcer = HostDirection(hostStyle)
    /\ \A i \in 2..Len(received) : received[i].host = received[i].value

\* C6: every recomputation applies the style and then pushes exactly one
\* value; the channel always holds one of the four directions, equal to
\* the flex-direction last applied to the host; a notified subscriber
\* never sees a host direction other than the value it receives.
C6_ApplyThenAnnounce ==
    /\ upd.called => upd.applied /\ upd.pushed = 1
    /\ C6_ChannelMatchesHost

\* C7: a subscriber receives on subscription exactly one value, the one
\* pushed by the most recent recomputation ("row" before any), and then
\* every later announced direction in order.
C7_ReplayLatest ==
    subscribed =>
        /\ Len(received) = 1 + (Len(emitted) - subAt)
        /\ received[1].value = IF subAt = 0 THEN Str(s_row) ELSE emitted[subAt]
        /\ \A i \in 1..(Len(emitted) - subAt) :
               received[i + 1].value = emitted[subAt + i]

\* a subscriber that came after two different announcements got the second
\* one, and then a third
C7_Witness ==
    /\ subscribed /\ subAt = 2 /\ Len(emitted) = 3
    /\ emitted[1] # emitted[2]
    /\ received[1].value = emitted[2]

\* C8: once the directive is destroyed, no media-query event recomputes,
\* restyles the host or emits on the channel.
C8_ReleasedOnDestroy ==
    [][destroyed =>
          /\ UNCHANGED <<hostStyle, announcer, emitted>>
          /\ last'.op = "mediaChange" => ~upd'.called]_vars

\* a media-query event arrived after the destruction
C8_Witness == destroyed /\ last.op = "mediaChange"

\* C9: no recomputation raises an error: whatever the inputs hold, it
\* completes, applies a style whose flex-direction is one of the four
\* directions and announces that direction.
C9_NeverThrows ==
    upd.called =>
        /\ ~upd.ret.threw
        /\ upd.applied
        /\ HostDirection(hostStyle) \in LayoutSet
        /\ announcer = HostDirection(hostStyle)

\* what of C10 is about the call alone: ngOnChanges calls
\* _updateWithDirection exactly when the change set has the base input or
\* the activation exists, and ngOnInit always calls it
C10_CallGuard ==
    /\ last.op = "ngOnChanges" =>
           (upd.called <=> (BaseKey \in last.changed \/ last.mqBefore))
    /\ last.op = "ngOnInit" => upd.called

\* C10: ngOnChanges applies a style and announces exactly when the change
\* set has the base input or the activation exists; ngOnInit always does,
\* so the host is styled once ngOnInit has run.
C10_RecomputeGuard ==
    /\ last.op = "ngOnChanges" =>
           ((upd.applied /\ upd.pushed = 1) <=>
                (BaseKey \in last.changed \/ last.mqBefore))
    /\ last.op = "ngOnInit" => upd.applied /\ upd.pushed = 1
    /\ mqActivation => HostDirection(hostStyle) # Undefined

===========================================================================
